---- MODULE Spec2Model ----
(***************************************************************************)
(* A model of jrsgen: the identifier renaming engine (formatter/mod.rs),   *)
(* the metadata model (parser/class_tree.rs), the signature and type       *)
(* mapping engine (formatter/class.rs) and the binding emitter             *)
(* (generator/).  Text is modelled as a sequence of one-character strings, *)
(* so that every conversion is computed character by character.            *)
(***************************************************************************)
EXTENDS Integers, Sequences, FiniteSets, TLC

VARIABLES
    input,                  \* rename_class_fq: the argument `input`
    components,             \* rename_class_fq: `components` after the pop of line 49
    class_name,             \* rename_class_fq: `class_name`
    class_fully_qualified,  \* rename_class_fq: `class_fully_qualified`
    tmp,                    \* rename_class_fq: `tmp`
    output,                 \* rename_class_fq: the returned String
    second,                 \* a second foreign name given to rename_class_fq
    second_output,          \* the name returned for `second`
    pc,                     \* position inside rename_class_fq
    java_name,              \* Class.getName() of a parameter type
    mappings,               \* Config.generator.mappings
    ty,                     \* the ArgumentType built from java_name
    jni,                    \* ArgumentType::to_jni_signature(&[ty])
    gen,                    \* argument_type_to_signature(&ty)
    decoded,                \* a text and ArgumentType::from_signature_type of it
    rust,                   \* ty.to_rust_type(&config)
    tpc,                    \* position in the handling of one type
    method,                 \* what the runtime reports of one method
    entry,                  \* the MethodEntry built from it
    jni_signature,          \* FormattedMethodEntry.jni_signature
    method_signature,       \* generate_signature(&entry)
    mpc,                    \* position in the handling of one method
    emitted,                \* generate_argument_type(&ty), as text
    class,                  \* one ClassEntry
    formatted,              \* FormattedClassEntry::from(class)
    tokens,                 \* generate_entry(&class)
    cpc,                    \* position in the handling of one class
    tree,                   \* the argument of generate
    cursor,                 \* classes generate has handled
    path,                   \* the path generate chose for the last of them
    files,                  \* the files under base_dir: path to content
    gpc,                    \* position in generate
    runtime,                \* the classes the foreign runtime holds
    jvm,                    \* main's jvm
    jvm_created,            \* calls of Jvm::new
    runtime_calls,          \* steps of build that called into the runtime
    classes,                \* build's classes, after the filter
    explored,               \* classes the second pass of build has taken
    class_entries,          \* the entries that pass has collected
    class_tree,             \* the result of build
    formatted_all,          \* main's formatted
    mainpc                  \* position in main

renameVars == <<input, components, class_name, class_fully_qualified, tmp,
                output, second, second_output, pc>>
typeVars == <<java_name, mappings, ty, jni, gen, decoded, rust, tpc>>
methodVars == <<method, entry, jni_signature, method_signature, mpc>>
emitVars == <<emitted>>
classVars == <<class, formatted, tokens, cpc>>
generateVars == <<tree, cursor, path, files, gpc>>
mainVars == <<runtime, jvm, jvm_created, runtime_calls, classes, explored, class_entries,
             class_tree, formatted_all, mainpc>>

(***************************************************************************)
(* Bounds of the model.                                                    *)
(***************************************************************************)
MaxLen == 5        \* longest enumerated foreign name, in characters
MaxPairLen == 3    \* longest name of an enumerated pair of names
MaxTotalLen == 3   \* longest name of the runs checked for termination
MaxDims == 2       \* most dimensions of an enumerated array type
MaxSigLen == 2     \* longest text given to from_signature_type
MaxArgs == 2       \* most parameters of an enumerated method
MaxMethods == 2    \* most methods of an enumerated class
MaxClasses == 2    \* most classes given to generate

(***************************************************************************)
(* Text helpers: the std::str operations the code calls.                   *)
(***************************************************************************)
LowerAlpha == <<"a", "b", "c", "d", "e", "f", "g", "h", "i", "j", "k", "l", "m", "n", "o", "p", "q", "r", "s", "t", "u", "v", "w", "x", "y", "z">>
UpperAlpha == <<"A", "B", "C", "D", "E", "F", "G", "H", "I", "J", "K", "L", "M", "N", "O", "P", "Q", "R", "S", "T", "U", "V", "W", "X", "Y", "Z">>
Digits == {"0", "1", "2", "3", "4", "5", "6", "7", "8", "9"}

IsLower(c) == \E k \in 1..Len(LowerAlpha) : LowerAlpha[k] = c
IsUpper(c) == \E k \in 1..Len(UpperAlpha) : UpperAlpha[k] = c
IsDigit(c) == c \in Digits

\* char::to_lowercase on one character
Lower(c) ==
    IF IsUpper(c)
    THEN LowerAlpha[CHOOSE k \in 1..Len(UpperAlpha) : UpperAlpha[k] = c]
    ELSE c

\* str::to_lowercase
ToLowercase(s) == [k \in 1..Len(s) |-> Lower(s[k])]

\* str::contains(char)
Contains(s, c) == \E k \in 1..Len(s) : s[k] = c

\* the number of occurrences of c in s
Count(s, c) == Cardinality({k \in 1..Len(s) : s[k] = c})

\* str::starts_with / str::ends_with
StartsWith(s, p) == Len(s) >= Len(p) /\ SubSeq(s, 1, Len(p)) = p
EndsWith(s, p) == Len(s) >= Len(p) /\ SubSeq(s, Len(s) - Len(p) + 1, Len(s)) = p

\* the index of the first occurrence of c in s (s contains c)
FirstIndex(s, c) == CHOOSE k \in 1..Len(s) : s[k] = c /\ \A j \in 1..(k - 1) : s[j] # c

\* str::split_once(char): the text before and after the first c
split_once(s, c) ==
    LET k == FirstIndex(s, c)
    IN  <<SubSeq(s, 1, k - 1), SubSeq(s, k + 1, Len(s))>>

\* str::split(char): never empty; "" splits into one empty piece
RECURSIVE split(_, _)
split(s, c) ==
    IF Contains(s, c)
    THEN <<split_once(s, c)[1]>> \o split(split_once(s, c)[2], c)
    ELSE <<s>>

\* the index of the first occurrence of the text pat in s, 0 when there is none
FirstMatch(s, pat) ==
    IF \E k \in 1..Len(s) : StartsWith(SubSeq(s, k, Len(s)), pat)
    THEN CHOOSE k \in 1..Len(s) :
            /\ StartsWith(SubSeq(s, k, Len(s)), pat)
            /\ \A j \in 1..(k - 1) : ~StartsWith(SubSeq(s, j, Len(s)), pat)
    ELSE 0

\* str::contains(&str)
contains(s, pat) == FirstMatch(s, pat) # 0

\* str::split(&str)
RECURSIVE split_str(_, _)
split_str(s, pat) ==
    IF contains(s, pat)
    THEN <<SubSeq(s, 1, FirstMatch(s, pat) - 1)>>
         \o split_str(SubSeq(s, FirstMatch(s, pat) + Len(pat), Len(s)), pat)
    ELSE <<s>>

\* [String]::join(sep)
RECURSIVE join(_, _)
join(parts, sep) ==
    IF Len(parts) = 0 THEN <<>>
    ELSE IF Len(parts) = 1 THEN parts[1]
    ELSE parts[1] \o sep \o join(Tail(parts), sep)

\* str::replace(pattern, &str): every non-overlapping match, left to right
RECURSIVE replace(_, _, _)
replace(s, pat, by) ==
    IF Len(s) = 0 THEN <<>>
    ELSE IF StartsWith(s, pat) THEN by \o replace(SubSeq(s, Len(pat) + 1, Len(s)), pat, by)
    ELSE <<Head(s)>> \o replace(Tail(s), pat, by)

\* all texts over the alphabet A of at most n characters
RECURSIVE Texts(_, _)
Texts(A, n) ==
    IF n = 0 THEN {<<>>}
    ELSE Texts(A, n - 1) \cup {Append(s, c) : s \in Texts(A, n - 1), c \in A}

(***************************************************************************)
(* convert_case: to_case(Case::Snake).  The text is cut into words at the  *)
(* delimiters '_', '-' and ' ' (which are dropped), between a lowercase    *)
(* and an uppercase letter, between a letter and a digit, and before the   *)
(* last capital of an acronym; empty words are dropped, every word is      *)
(* lowercased and the words are joined with '_'.                           *)
(***************************************************************************)
Delimiters == {"_", "-", " "}

\* "consume": the character is a delimiter; "after": a word ends with it
SplitPoint(s, k) ==
    IF s[k] \in Delimiters THEN "consume"
    ELSE IF k < Len(s) /\ \/ IsLower(s[k]) /\ IsUpper(s[k + 1])
                          \/ IsUpper(s[k]) /\ IsDigit(s[k + 1])
                          \/ IsDigit(s[k]) /\ IsUpper(s[k + 1])
                          \/ IsDigit(s[k]) /\ IsLower(s[k + 1])
                          \/ IsLower(s[k]) /\ IsDigit(s[k + 1])
         THEN "after"
    ELSE IF k + 1 < Len(s) /\ IsUpper(s[k]) /\ IsUpper(s[k + 1]) /\ IsLower(s[k + 2])
         THEN "after"
    ELSE "none"

RECURSIVE WordsFrom(_, _, _)
WordsFrom(s, k, word) ==
    IF k > Len(s) THEN <<word>>
    ELSE IF SplitPoint(s, k) = "consume" THEN <<word>> \o WordsFrom(s, k + 1, <<>>)
    ELSE IF SplitPoint(s, k) = "after"
         THEN <<Append(word, s[k])>> \o WordsFrom(s, k + 1, <<>>)
    ELSE WordsFrom(s, k + 1, Append(word, s[k]))

Words(s) == SelectSeq(WordsFrom(s, 1, <<>>), LAMBDA w : Len(w) > 0)

\* the words joined with '-' where the code joins them with '_'
to_case_snake_Kebab(s) == join([k \in 1..Len(Words(s)) |-> ToLowercase(Words(s)[k])], <<"-">>)
to_case_snake(s) == join([k \in 1..Len(Words(s)) |-> ToLowercase(Words(s)[k])], <<"_">>)

(***************************************************************************)
(* formatter/mod.rs: the identifier renaming engine.                       *)
(***************************************************************************)
KEYWORD_SUFFIX == <<"_", "k">>
SUBCLASS_PARENT_SUFFIX == <<"_", "p">>

Keywords == {<<"i", "m", "p", "l">>, <<"m", "o", "v", "e">>, <<"i", "n">>}

\* a slip: a component is escaped when it only begins with a reserved word
escape_keywords_Prefix(x) ==
    IF \E kw \in Keywords : StartsWith(x, kw) THEN x \o KEYWORD_SUFFIX ELSE x

\* lines 13-20
escape_keywords(x) == IF x \in Keywords THEN x \o KEYWORD_SUFFIX ELSE x

\* a slip: the enclosing class is not keyword-escaped
rename_parent_class_Unescaped(x) == to_case_snake(x) \o SUBCLASS_PARENT_SUFFIX

\* lines 28-33
rename_parent_class(x) == to_case_snake(escape_keywords(x)) \o SUBCLASS_PARENT_SUFFIX

\* lines 45-48: the components of the name, each keyword-escaped
EscapedComponents(name) ==
    [k \in 1..Len(split(name, ".")) |-> escape_keywords(split(name, ".")[k])]

\* Vec::pop on the components (split never yields an empty Vec)
Front(xs) == SubSeq(xs, 1, Len(xs) - 1)
Last(xs) == xs[Len(xs)]

\* a slip: the package components are lowercased, not snake-cased
CaseAdjusted_Lowercase(xs) == [k \in 1..Len(xs) |-> ToLowercase(xs[k])]

\* lines 52-54: the casing of the package components
CaseAdjusted(xs) == [k \in 1..Len(xs) |-> to_case_snake(xs[k])]

\* a slip: an empty enclosing-class segment is skipped without consuming it
LoopBody_SkipEmpty(fq, t) ==
    IF split_once(t, "$")[1] = <<>> THEN <<fq, t>>
    ELSE <<Append(fq, rename_parent_class(split_once(t, "$")[1])), split_once(t, "$")[2]>>

\* lines 60-70, one iteration of the loop on <<class_fully_qualified, tmp>>
LoopBody(fq, t) ==
    <<Append(fq, rename_parent_class(split_once(t, "$")[1])), split_once(t, "$")[2]>>

RECURSIVE LoopAll(_, _)
LoopAll(fq, t) ==
    IF Contains(t, "$") THEN LoopAll(LoopBody(fq, t)[1], LoopBody(fq, t)[2])
    ELSE Append(fq, t)

\* the whole function, as its callers use it
rename_class_fq(name) ==
    LET escaped == EscapedComponents(name)
    IN  join(LoopAll(CaseAdjusted(Front(escaped)), Last(escaped)), <<".">>)

(***************************************************************************)
(* parser/class_tree.rs: the metadata model.  An ArgumentType is a record  *)
(* with its variant in `tag`; Object carries `name`, Array carries `elem`. *)
(***************************************************************************)
PrimitiveTags == {"Boolean", "Byte", "Char", "Short", "Int", "Long", "Float", "Double"}
Primitive(tag) == [tag |-> tag]
Object(name) == [tag |-> "Object", name |-> name]
Array(elem) == [tag |-> "Array", elem |-> elem]
None == [tag |-> "None"]

\* lines 173-185: Some(kind) for the eight letters, None otherwise
from_signature_type(i) ==
    CASE i = <<"B">> -> Primitive("Byte")
      [] i = <<"Z">> -> Primitive("Boolean")
      [] i = <<"J">> -> Primitive("Long")
      [] i = <<"I">> -> Primitive("Int")
      [] i = <<"F">> -> Primitive("Float")
      [] i = <<"D">> -> Primitive("Double")
      [] i = <<"S">> -> Primitive("Short")
      [] i = <<"C">> -> Primitive("Char")
      [] OTHER -> None

\* line 199: Class.isArray() of the class the runtime finds under the name
is_array(name) == StartsWith(name, <<"[">>)

\* lines 187-208
ArgumentType_new(name) ==
    CASE name = <<"b", "o", "o", "l", "e", "a", "n">> -> Primitive("Boolean")
      [] name = <<"b", "y", "t", "e">> -> Primitive("Byte")
      [] name = <<"c", "h", "a", "r">> -> Primitive("Char")
      [] name = <<"s", "h", "o", "r", "t">> -> Primitive("Short")
      [] name = <<"i", "n", "t">> -> Primitive("Int")
      [] name = <<"l", "o", "n", "g">> -> Primitive("Long")
      [] name = <<"f", "l", "o", "a", "t">> -> Primitive("Float")
      [] name = <<"d", "o", "u", "b", "l", "e">> -> Primitive("Double")
      [] OTHER -> IF is_array(name)
                   THEN Array(IF from_signature_type(name) # None
                              THEN from_signature_type(name)
                              ELSE Object(name))
                   ELSE Object(name)

\* lines 127-146: the return type of MethodEntry::new
return_type_new(ret_name) ==
    CASE ret_name = <<"b", "o", "o", "l", "e", "a", "n">> -> Primitive("Boolean")
      [] ret_name = <<"i", "n", "t">> -> Primitive("Int")
      [] ret_name = <<"f", "l", "o", "a", "t">> -> Primitive("Float")
      [] ret_name = <<"s", "h", "o", "r", "t">> -> Primitive("Short")
      [] ret_name = <<"d", "o", "u", "b", "l", "e">> -> Primitive("Double")
      [] ret_name = <<"b", "y", "t", "e">> -> Primitive("Byte")
      [] ret_name = <<"l", "o", "n", "g">> -> Primitive("Long")
      [] ret_name = <<"c", "h", "a", "r">> -> Primitive("Char")
      [] ret_name = <<"v", "o", "i", "d">> -> None
      [] OTHER -> IF is_array(ret_name) THEN Array(Object(ret_name)) ELSE Object(ret_name)

(***************************************************************************)
(* formatter/class.rs: wire descriptors and target types.                  *)
(***************************************************************************)
\* the outcome of a call that ends in unreachable!() or panic!()
Panic == <<"panic">>

\* lines 134-139
is_primitive(this) == this.tag \notin {"Object", "Array"}

\* a slip: long gets the letter that introduces a class name
primitive_to_jni_signature_LongL(this) ==
    CASE this.tag = "Int" -> <<"I">>
      [] this.tag = "Byte" -> <<"B">>
      [] this.tag = "Double" -> <<"D">>
      [] this.tag = "Float" -> <<"F">>
      [] this.tag = "Short" -> <<"S">>
      [] this.tag = "Char" -> <<"C">>
      [] this.tag = "Boolean" -> <<"Z">>
      [] this.tag = "Long" -> <<"L">>
      [] OTHER -> Panic

\* lines 141-153
primitive_to_jni_signature(this) ==
    CASE this.tag = "Int" -> <<"I">>
      [] this.tag = "Byte" -> <<"B">>
      [] this.tag = "Double" -> <<"D">>
      [] this.tag = "Float" -> <<"F">>
      [] this.tag = "Short" -> <<"S">>
      [] this.tag = "Char" -> <<"C">>
      [] this.tag = "Boolean" -> <<"Z">>
      [] this.tag = "Long" -> <<"J">>
      [] OTHER -> Panic

\* the text bound to class_fq by the pattern of line 110
class_fq_of(this) == IF this.tag = "Object" THEN this.name ELSE this.elem.name

\* lines 111-123: the arm for Object and Array
object_to_jni_signature(class_fq) ==
    LET cleaned == replace(class_fq, <<".">>, <<"/">>)
    IN  IF StartsWith(cleaned, <<"[", "L">>) /\ EndsWith(cleaned, <<";">>)
        THEN <<"[", "L">> \o SubSeq(cleaned, 2, Len(cleaned) - 1) \o <<";">>
        ELSE IF StartsWith(cleaned, <<"[">>) THEN cleaned
        ELSE Panic

\* lines 104-130: the closure applied to one element
element_to_jni_signature(this) ==
    IF is_primitive(this) THEN primitive_to_jni_signature(this)
    ELSE object_to_jni_signature(class_fq_of(this))

RECURSIVE concat(_)
concat(texts) == IF Len(texts) = 0 THEN <<>> ELSE Head(texts) \o concat(Tail(texts))

\* lines 102-132: a panic in the closure unwinds out of the call
to_jni_signature(this) ==
    IF \E k \in 1..Len(this) : element_to_jni_signature(this[k]) = Panic
    THEN Panic
    ELSE concat([k \in 1..Len(this) |-> element_to_jni_signature(this[k])])

\* a slip: the override is renamed like a foreign name
lookup_Renamed(mapping, type_path) ==
    IF type_path \in DOMAIN mapping
    THEN replace(rename_class_fq(mapping[type_path]), <<".">>, <<":", ":">>)
    ELSE type_path

\* lines 179-183: the path looked up, and the mapping or the path itself
lookup(mapping, type_path) ==
    IF type_path \in DOMAIN mapping THEN mapping[type_path] ELSE type_path

\* lines 165-195
RECURSIVE to_rust_type(_, _)
to_rust_type(this, config) ==
    CASE this.tag = "Int" -> <<"i", "3", "2">>
      [] this.tag = "Byte" -> <<"u", "8">>
      [] this.tag = "Double" -> <<"f", "6", "4">>
      [] this.tag = "Float" -> <<"f", "3", "2">>
      [] this.tag = "Short" -> <<"i", "1", "6">>
      [] this.tag = "Char" -> <<"u", "1", "6">>
      [] this.tag = "Boolean" -> <<"b", "o", "o", "l">>
      [] this.tag = "Long" -> <<"i", "6", "4">>
      [] this.tag = "Object" ->
            LET class_fq == replace(replace(replace(this.name, <<"[">>, <<>>),
                                            <<"[", "L">>, <<>>), <<";">>, <<>>)
                renamed == rename_class_fq(class_fq)
                type_path == replace(renamed, <<".">>, <<":", ":">>)
            IN  lookup(config, type_path)
      [] this.tag = "Array" -> to_rust_type(this.elem, config)

\* lines 55-57 of FormattedMethodEntry::from
format_jni_signature(original) ==
    LET jni_args == to_jni_signature(original.arguments)
        jni_ret == IF original.return_type = None THEN <<"V">>
                   ELSE to_jni_signature(<<original.return_type>>)
    IN  IF jni_args = Panic \/ jni_ret = Panic THEN Panic
        ELSE <<"(">> \o jni_args \o <<")">> \o jni_ret

(***************************************************************************)
(* generator/: the binding emitter.                                        *)
(***************************************************************************)
\* generator/mod.rs lines 18-25
format_name(x) ==
    IF x = <<"i", "m", "p", "l">> THEN <<"i", "m", "p", "l", "_", "k">>
    ELSE IF x = <<"m", "o", "v", "e">> THEN <<"m", "o", "v", "e", "_", "k">>
    ELSE IF x = <<"i", "n">> THEN <<"i", "n", "_", "k">>
    ELSE x

\* generator/method.rs lines 151-157 and 161-168: the name, slash-separated
name_slashed(name) ==
    replace(join([k \in 1..Len(split(name, ".")) |-> format_name(split(name, ".")[k])],
                 <<".">>), <<".">>, <<"/">>)

\* generator/method.rs lines 140-172
argument_type_to_signature(argument_type) ==
    CASE argument_type.tag = "Boolean" -> <<"Z">>
      [] argument_type.tag = "Byte" -> <<"B">>
      [] argument_type.tag = "Char" -> <<"C">>
      [] argument_type.tag = "Short" -> <<"S">>
      [] argument_type.tag = "Int" -> <<"I">>
      [] argument_type.tag = "Long" -> <<"J">>
      [] argument_type.tag = "Float" -> <<"F">>
      [] argument_type.tag = "Double" -> <<"D">>
      [] argument_type.tag = "Object" ->
            <<"L">> \o name_slashed(argument_type.name) \o <<";">>
      [] argument_type.tag = "Array" ->
            <<"[", "L">> \o name_slashed(class_fq_of(argument_type)) \o <<";">>

\* generator/method.rs lines 174-185
generate_signature(m) ==
    LET arguments == concat([k \in 1..Len(m.arguments) |->
                                argument_type_to_signature(m.arguments[k])])
        ret == IF m.return_type # None THEN argument_type_to_signature(m.return_type)
               ELSE <<"V">>
    IN  <<"(">> \o arguments \o <<")">> \o ret

\* generator/method.rs lines 304-316 and 332-338: the path under crate::bindings
bindings_path(tokens_) ==
    <<"c", "r", "a", "t", "e", ":", ":", "b", "i", "n", "d", "i", "n", "g", "s", ":", ":">> \o tokens_

Vec(inner) == <<"V", "e", "c", "<">> \o inner \o <<">">>

\* generator/method.rs lines 254-346: the tokens, as text
generate_argument_type(argument_type) ==
    CASE argument_type.tag = "Int" -> <<"i", "3", "2">>
      [] argument_type.tag = "Char" -> <<"u", "1", "6">>
      [] argument_type.tag = "Double" -> <<"f", "6", "4">>
      [] argument_type.tag = "Float" -> <<"f", "3", "2">>
      [] argument_type.tag = "Byte" -> <<"u", "8">>
      [] argument_type.tag = "Long" -> <<"i", "6", "4">>
      [] argument_type.tag = "Short" -> <<"i", "1", "6">>
      [] argument_type.tag = "Boolean" -> <<"b", "o", "o", "l">>
      [] argument_type.tag = "Array" ->
            LET object == class_fq_of(argument_type)
                stripped == replace(replace(replace(replace(replace(object,
                                <<"[", "L">>, <<>>), <<"[">>, <<>>), <<";">>, <<>>),
                                <<".">>, <<":", ":">>), <<"$">>, <<":", ":">>)
                parts == split_str(stripped, <<":", ":">>)
            IN
                CASE object = <<"[", "Z">> -> Vec(<<"b", "o", "o", "l">>)
                  [] object = <<"[", "B">> -> Vec(<<"u", "8">>)
                  [] object = <<"[", "C">> -> Vec(<<"u", "1", "6">>)
                  [] object = <<"[", "S">> -> Vec(<<"i", "1", "6">>)
                  [] object = <<"[", "I">> -> Vec(<<"i", "3", "2">>)
                  [] object = <<"[", "J">> -> Vec(<<"i", "6", "4">>)
                  [] object = <<"[", "F">> -> Vec(<<"f", "3", "2">>)
                  [] object = <<"[", "D">> -> Vec(<<"f", "6", "4">>)
                  [] object = <<"[", "[", "I">> -> Vec(Vec(<<"i", "3", "2">>))
                  [] object = <<"[", "[", "B">> -> Vec(Vec(<<"u", "8">>))
                  [] OTHER ->
                        Vec(bindings_path(join([k \in 1..Len(parts) |-> format_name(parts[k])],
                                               <<":", ":">>)))
      [] argument_type.tag = "Object" ->
            bindings_path(replace(replace(
                join([k \in 1..Len(split(argument_type.name, ".")) |->
                        format_name(split(argument_type.name, ".")[k])], <<".">>),
                <<".">>, <<":", ":">>), <<"$">>, <<":", ":">>))

(***************************************************************************)
(* formatter/class.rs and generator: a whole class.                        *)
(***************************************************************************)
LambdaMarker == <<"l", "a", "m", "b", "d", "a", "$">>

\* formatter/class.rs lines 47-75
FormattedMethodEntry_from(original) ==
    [rust_name |-> escape_keywords(to_case_snake(original.name)),
     java_name |-> original.name,
     is_static |-> original.is_static,
     jni_signature |-> format_jni_signature(original)]

\* what is left of a conversion that panicked
Unwound == [panic |-> Panic]

\* formatter/class.rs lines 15-33: every method is mapped, none is filtered;
\* a panic while one method is formatted unwinds out of the conversion
FormattedClassEntry_from(original) ==
    IF \E k \in 1..Len(original.methods) :
            format_jni_signature(original.methods[k]) = Panic
    THEN Unwound
    ELSE [name |-> rename_class_fq(original.name),
          methods |-> [k \in 1..Len(original.methods) |->
                            FormattedMethodEntry_from(original.methods[k])],
          class_type |-> original.class_type]

\* quote! {}
EmptyTokens == [kind |-> "empty"]

\* generator/method.rs lines 32-55
generate_static(m) ==
    [kind |-> "static", java_name |-> m.name, method_signature |-> generate_signature(m)]

\* generator/method.rs lines 57-78
generate_associated(m) ==
    [kind |-> "associated", java_name |-> m.name, method_signature |-> generate_signature(m)]

\* generator/method.rs lines 8-30
generate_method(m) ==
    IF contains(m.name, LambdaMarker) \/ Contains(m.name, "$") THEN EmptyTokens
    ELSE IF \E k \in 1..Len(m.arguments) :
                /\ m.arguments[k].tag = "Object"
                /\ contains(m.arguments[k].name, LambdaMarker)
         THEN EmptyTokens
    ELSE IF m.is_static THEN generate_static(m)
    ELSE generate_associated(m)

\* generator/mod.rs lines 103-121
generate_entry(c) ==
    IF c.class_type = "Annotation" THEN EmptyTokens
    ELSE [kind |-> c.class_type,
          name |-> c.name,
          methods |-> [k \in 1..Len(c.methods) |-> generate_method(c.methods[k])]]

(***************************************************************************)
(* generator/mod.rs: generate.                                             *)
(***************************************************************************)
DigitValue(c) ==
    CHOOSE n \in 0..9 : <<"0", "1", "2", "3", "4", "5", "6", "7", "8", "9">>[n + 1] = c

RECURSIVE StripZeros(_)
StripZeros(s) == IF Len(s) > 0 /\ Head(s) = "0" THEN StripZeros(Tail(s)) ELSE s

\* a <= b for decimal numerals of one length
RECURSIVE NumeralLeq(_, _)
NumeralLeq(a, b) ==
    IF Len(a) = 0 THEN TRUE
    ELSE IF DigitValue(Head(a)) # DigitValue(Head(b))
         THEN DigitValue(Head(a)) < DigitValue(Head(b))
    ELSE NumeralLeq(Tail(a), Tail(b))

\* generator/mod.rs line 55: name.parse::<i32>().is_ok()
parse_i32_is_ok(s) ==
    LET signed == Len(s) > 0 /\ s[1] \in {"+", "-"}
        body == IF signed THEN Tail(s) ELSE s
        limit == IF signed /\ s[1] = "-" THEN <<"2", "1", "4", "7", "4", "8", "3", "6", "4", "8">>
                 ELSE <<"2", "1", "4", "7", "4", "8", "3", "6", "4", "7">>
        significant == StripZeros(body)
    IN  /\ Len(body) > 0
        /\ \A k \in 1..Len(body) : IsDigit(body[k])
        /\ \/ Len(significant) < 10
           \/ Len(significant) = 10 /\ NumeralLeq(significant, limit)

\* generator/mod.rs lines 31-66: the directory under base_dir, the file stem,
\* the early return and the rewritten class.name of one class
handle(c) ==
    LET comps == [k \in 1..Len(split(c.name, ".")) |->
                            format_name(split(c.name, ".")[k])]
        name == Last(comps)
        dir == Front(comps)
        parts == split(name, "$")
        parent_class == parts[1]
        parent_class_as_package == to_case_snake(parent_class) \o <<"_", "d">>
    IN  IF Contains(name, "$")
        THEN [dir |-> Append(dir, parent_class_as_package),
              name |-> Last(parts),
              returned |-> parse_i32_is_ok(Last(parts)),
              class_name |-> replace(replace(c.name, parent_class, parent_class_as_package),
                                     <<"$">>, <<".">>)]
        ELSE [dir |-> dir, name |-> name, returned |-> FALSE, class_name |-> c.name]

\* generator/mod.rs line 68: dir.join(format!("{}.rs", name))
path_of(h) == Append(h.dir, h.name \o <<".", "r", "s">>)

\* generator/mod.rs line 69: File::create has truncated the file
EmptyFile == [kind |-> "truncated"]

(***************************************************************************)
(* The foreign names given to rename_class_fq.                             *)
(***************************************************************************)
Alphabet == {"i", "n", "I", "_", "$", "."}

\* the names of the unit tests of formatter/mod.rs, and one with every keyword
TestNames == {
      <<"c", "o", "m", ".", "f", "o", "o", ".", "e", "x", "a", "m", "p", "l", "e", ".", "B", "a", "r">>,
      <<"c", "o", "m", ".", "f", "o", "o", ".", "i", "m", "p", "l", ".", "B", "a", "r">>,
      <<"c", "o", "m", ".", "f", "o", "o", ".", "e", "x", "a", "m", "p", "l", "e", ".", "B", "a", "r", "$", "B", "a", "z">>,
      <<"c", "o", "m", ".", "f", "o", "o", ".", "e", "x", "a", "m", "p", "l", "e", ".", "B", "a", "r", "$", "B", "a", "z", "$", "Q", "u", "i", "x">>,
      <<"c", "o", "m", ".", "f", "o", "o", ".", "e", "x", "a", "m", "p", "l", "e", ".", "B", "a", "r", "$", "B", "a", "z", "$", "Q", "u", "i", "x", "$", "E", "x", "a", "m", "p", "l", "e">>,
      <<"c", "o", "m", ".", "F", "o", "o", ".", "e", "x", "a", "m", "p", "l", "e", ".", "B", "a", "r">>,
      <<"m", "o", "v", "e", ".", "i", "m", "p", "l", "$", "i", "n">>}

Names == Texts(Alphabet, MaxLen) \cup TestNames

\* a binary name of the foreign runtime: identifiers separated by '.'
IsJavaName(s) == \A k \in 1..Len(split(s, ".")) : Len(split(s, ".")[k]) > 0
PairNames == {s \in Texts(Alphabet, MaxPairLen) : IsJavaName(s)}

\* any text at all, over the characters the loop of lines 60-70 looks at
TotalAlphabet == {"i", "I", "$", "."}
TotalNames == Texts(TotalAlphabet, MaxTotalLen)

NoText == <<"?">>

(***************************************************************************)
(* The types the foreign runtime reports: Class.getName() of a primitive   *)
(* is its keyword, of a class its binary name, and of an array one '[' per *)
(* dimension followed by the element's letter, or by 'L', the element's    *)
(* binary name and ';'.                                                    *)
(***************************************************************************)
PrimitiveWords == {
    <<"b", "o", "o", "l", "e", "a", "n">>,
    <<"b", "y", "t", "e">>,
    <<"c", "h", "a", "r">>,
    <<"s", "h", "o", "r", "t">>,
    <<"i", "n", "t">>,
    <<"l", "o", "n", "g">>,
    <<"f", "l", "o", "a", "t">>,
    <<"d", "o", "u", "b", "l", "e">>}

ArrayLetter(word) ==
    CASE word = <<"b", "o", "o", "l", "e", "a", "n">> -> <<"Z">>
      [] word = <<"b", "y", "t", "e">> -> <<"B">>
      [] word = <<"c", "h", "a", "r">> -> <<"C">>
      [] word = <<"s", "h", "o", "r", "t">> -> <<"S">>
      [] word = <<"i", "n", "t">> -> <<"I">>
      [] word = <<"l", "o", "n", "g">> -> <<"J">>
      [] word = <<"f", "l", "o", "a", "t">> -> <<"F">>
      [] word = <<"d", "o", "u", "b", "l", "e">> -> <<"D">>

\* java.lang.String and a.b.C of the examples, a package named by a keyword,
\* a nested class and a class of the unnamed package
ClassNames == {
    <<"j", "a", "v", "a", ".", "l", "a", "n", "g", ".", "S", "t", "r", "i", "n", "g">>,
    <<"a", ".", "b", ".", "C">>,
    <<"a", ".", "i", "n", ".", "C">>,
    <<"a", ".", "B", "$", "D">>,
    <<"C">>}

Brackets(n) == [k \in 1..n |-> "["]

JavaName(base, dims) ==
    IF dims = 0 THEN base
    ELSE IF base \in PrimitiveWords THEN Brackets(dims) \o ArrayLetter(base)
    ELSE Brackets(dims) \o <<"L">> \o base \o <<";">>

JavaTypeNames == {JavaName(b, d) : b \in PrimitiveWords \cup ClassNames, d \in 0..MaxDims}

\* the texts given to from_signature_type
SigAlphabet == {"Z", "B", "C", "S", "I", "J", "F", "D", "L", "V", "[", ";", "i"}
SigTexts == Texts(SigAlphabet, MaxSigLen)

\* the override tables of the configuration: paths of the classes above, as
\* renamed and as the foreign runtime names them, mapped to a type text
MappingKeys == {
    <<"a", ":", ":", "b", ":", ":", "C">>,
    <<"a", ":", ":", "i", "n", "_", "k", ":", ":", "C">>,
    <<"a", ":", ":", "i", "n", ":", ":", "C">>,
    <<"C">>}
MappingValue == <<"i", "n", ":", ":", "I", "n", ".", "Q", "$", "R">>
Mappings == {[k \in K |-> MappingValue] : K \in SUBSET MappingKeys}

NoType == [tag |-> "?"]

\* the methods the runtime reports: the names of the parameter types, in
\* order, and of the return type
Void == <<"v", "o", "i", "d">>
ParameterNames == {
    <<"i", "n", "t">>,
    <<"b", "o", "o", "l", "e", "a", "n">>,
    JavaName(<<"i", "n", "t">>, 1),
    <<"j", "a", "v", "a", ".", "l", "a", "n", "g", ".", "S", "t", "r", "i", "n", "g">>,
    JavaName(<<"a", ".", "b", ".", "C">>, 1)}

RECURSIVE Lists(_, _)
Lists(S, n) ==
    IF n = 0 THEN {<<>>}
    ELSE Lists(S, n - 1) \cup {Append(l, x) : l \in Lists(S, n - 1), x \in S}

Methods ==
    [parameters : Lists(ParameterNames, MaxArgs), ret : JavaTypeNames \cup {Void}]

NoMethod == [parameters |-> <<>>, ret |-> NoText]
NoEntry == [arguments |-> <<>>, return_type |-> NoType]

RenameInit(S) ==
    /\ input \in S
    /\ components = <<>>
    /\ class_name = NoText
    /\ class_fully_qualified = <<>>
    /\ tmp = NoText
    /\ output = NoText
    /\ second = NoText
    /\ second_output = NoText
    /\ pc = "start"

\* lines 45-49
RenameSplit ==
    /\ pc = "start"
    /\ IF Len(EscapedComponents(input)) = 0
       THEN /\ pc' = "panic"
            /\ UNCHANGED <<components, class_name>>
       ELSE /\ components' = Front(EscapedComponents(input))
            /\ class_name' = Last(EscapedComponents(input))
            /\ pc' = "split"
    /\ UNCHANGED <<input, class_fully_qualified, tmp, output, second, second_output>>

\* lines 52-59
RenameCase ==
    /\ pc = "split"
    /\ class_fully_qualified' = CaseAdjusted(components)
    /\ tmp' = class_name
    /\ pc' = "loop"
    /\ UNCHANGED <<input, components, class_name, output, second, second_output>>

\* lines 60-70: one iteration
RenameLoop ==
    /\ pc = "loop"
    /\ Contains(tmp, "$")
    /\ class_fully_qualified' = LoopBody(class_fully_qualified, tmp)[1]
    /\ tmp' = LoopBody(class_fully_qualified, tmp)[2]
    /\ UNCHANGED <<input, components, class_name, output, second, second_output, pc>>

\* lines 60 and 73-75: the loop ends, the name is joined and returned
RenameFinish ==
    /\ pc = "loop"
    /\ ~Contains(tmp, "$")
    /\ class_fully_qualified' = Append(class_fully_qualified, tmp)
    /\ output' = join(Append(class_fully_qualified, tmp), <<".">>)
    /\ pc' = "done"
    /\ UNCHANGED <<input, components, class_name, tmp, second, second_output>>

\* the function is called again, for another class of the run
RenameSecond ==
    /\ pc = "done"
    /\ \E b \in PairNames :
        /\ second' = b
        /\ second_output' = rename_class_fq(b)
    /\ pc' = "compared"
    /\ UNCHANGED <<input, components, class_name, class_fully_qualified, tmp, output>>

RenameStep == RenameSplit \/ RenameCase \/ RenameLoop \/ RenameFinish

TypeInit(M) ==
    /\ java_name \in JavaTypeNames
    /\ mappings \in M
    /\ ty = NoType
    /\ jni = NoText
    /\ gen = NoText
    /\ decoded = [text |-> NoText, result |-> NoType]
    /\ rust = NoText
    /\ tpc = "meta"

TypeIdle ==
    /\ java_name = NoText
    /\ mappings = <<>>
    /\ ty = NoType
    /\ jni = NoText
    /\ gen = NoText
    /\ decoded = [text |-> NoText, result |-> NoType]
    /\ rust = NoText
    /\ tpc = "idle"

\* parser/class_tree.rs lines 110-112: the type of one parameter
ArgumentTypeNew ==
    /\ tpc = "meta"
    /\ ty' = ArgumentType_new(java_name)
    /\ tpc' = "typed"
    /\ UNCHANGED <<java_name, mappings, jni, gen, decoded, rust>>

\* formatter/class.rs line 56: the wire descriptor of the type
ToJniSignature ==
    /\ tpc = "typed"
    /\ jni' = to_jni_signature(<<ty>>)
    /\ tpc' = "formatted"
    /\ UNCHANGED <<java_name, mappings, ty, gen, decoded, rust>>

\* generator/method.rs lines 175-177: the wire descriptor, by the emitter
ArgumentTypeToSignature ==
    /\ tpc = "formatted"
    /\ gen' = argument_type_to_signature(ty)
    /\ tpc' = "generated"
    /\ UNCHANGED <<java_name, mappings, ty, jni, decoded, rust>>

\* parser/class_tree.rs lines 173-185, on any text
FromSignatureType ==
    /\ tpc = "generated"
    /\ \E i \in SigTexts : decoded' = [text |-> i, result |-> from_signature_type(i)]
    /\ tpc' = "decoded"
    /\ UNCHANGED <<java_name, mappings, ty, jni, gen, rust>>

\* formatter/class.rs lines 165-195, with the configuration's mappings
ToRustType ==
    /\ tpc = "typed"
    /\ rust' = to_rust_type(ty, mappings)
    /\ tpc' = "mapped"
    /\ UNCHANGED <<java_name, mappings, ty, jni, gen, decoded>>

\* generator/method.rs lines 243 and 352: the type of a return value or parameter
GenerateArgumentType ==
    /\ tpc = "mapped"
    /\ emitted' = generate_argument_type(ty)
    /\ tpc' = "emitted"
    /\ UNCHANGED <<java_name, mappings, ty, jni, gen, decoded, rust>>

EmitIdle == emitted = NoText

MethodInit ==
    /\ method \in Methods
    /\ entry = NoEntry
    /\ jni_signature = NoText
    /\ method_signature = NoText
    /\ mpc = "meta"

MethodIdle ==
    /\ method = NoMethod
    /\ entry = NoEntry
    /\ jni_signature = NoText
    /\ method_signature = NoText
    /\ mpc = "idle"

\* parser/class_tree.rs lines 94-155: the arguments and the return type
MethodEntryNew ==
    /\ mpc = "meta"
    /\ entry' = [arguments |-> [k \in 1..Len(method.parameters) |->
                                    ArgumentType_new(method.parameters[k])],
                 return_type |-> return_type_new(method.ret)]
    /\ mpc' = "built"
    /\ UNCHANGED <<method, jni_signature, method_signature>>

\* formatter/class.rs lines 47-75: the descriptor of the formatted entry
FormattedMethodEntryFrom ==
    /\ mpc = "built"
    /\ jni_signature' = format_jni_signature(entry)
    /\ mpc' = "formatted"
    /\ UNCHANGED <<method, entry, method_signature>>

\* generator/method.rs lines 44 and 67: the descriptor the wrapper passes
GenerateSignature ==
    /\ mpc = "formatted"
    /\ method_signature' = generate_signature(entry)
    /\ mpc' = "generated"
    /\ UNCHANGED <<method, entry, jni_signature>>

\* the methods of the enumerated classes
MethodNames == {<<"g", "e", "t">>, <<"l", "a", "m", "b", "d", "a", "$", "0">>, <<"a", "$", "b">>}
MethodArguments == {<<>>, <<Object(<<"a", ".", "l", "a", "m", "b", "d", "a", "$", "C">>)>>, <<Array(Object(<<"[", "I">>))>>}
MethodEntries ==
    [name : MethodNames, is_static : BOOLEAN, arguments : MethodArguments,
     return_type : {None}]
ClassTypes == {"Class", "Interface", "Annotation"}
ClassEntries ==
    [name : {<<"a", ".", "B">>}, class_type : ClassTypes, methods : Lists(MethodEntries, MaxMethods)]
NoClass == [name |-> NoText, class_type |-> "?", methods |-> <<>>]
NoTokens == [kind |-> "?"]

ClassInit ==
    /\ class \in ClassEntries
    /\ formatted = NoClass
    /\ tokens = NoTokens
    /\ cpc = "built"

ClassIdle ==
    /\ class = NoClass
    /\ formatted = NoClass
    /\ tokens = NoTokens
    /\ cpc = "idle"

\* main.rs lines 36-39: the class is formatted
FormattedClassEntryFrom ==
    /\ cpc = "built"
    /\ formatted' = FormattedClassEntry_from(class)
    /\ cpc' = "formatted"
    /\ UNCHANGED <<class, tokens>>

\* generator/mod.rs line 73: the tokens of the class
GenerateEntry ==
    /\ cpc = "formatted"
    /\ tokens' = generate_entry(class)
    /\ cpc' = "generated"
    /\ UNCHANGED <<class, formatted>>

\* the classes given to generate
GenerateNames == {
    <<"a", ".", "B">>,
    <<"a", ".", "B", "$", "C">>,
    <<"a", ".", "B", "$", "1">>,
    <<"a", ".", "B", "$", "C", "$", "D">>,
    <<"a", ".", "B", "$", "E", "$", "D">>,
    <<"a", ".", "b", "_", "d", ".", "C">>,
    <<"A", ".", "B">>,
    <<"a", ".", "i", "n", ".", "C">>,
    <<"a", ".", "B", "$", "B", "c">>,
    <<"B", ".", "B", "$", "C">>}
Trees ==
    Lists([name : GenerateNames, class_type : {"Class"}, methods : {<<>>}], MaxClasses)
NoPath == <<NoText>>

GenerateInit ==
    /\ tree \in Trees
    /\ cursor = 0
    /\ path = NoPath
    /\ files = <<>>
    /\ gpc = "running"

GenerateIdle ==
    /\ tree = <<>>
    /\ cursor = 0
    /\ path = NoPath
    /\ files = <<>>
    /\ gpc = "idle"

\* generator/mod.rs lines 31-78: the closure, on the next class of the tree;
\* creating the directory or the file, and formatting or writing, may fail
GenerateClass ==
    /\ gpc = "running"
    /\ cursor < Len(tree)
    /\ cursor' = cursor + 1
    /\ UNCHANGED tree
    /\ LET c == tree[cursor + 1]
           h == handle(c)
       IN  IF h.returned
           THEN /\ path' = NoPath
                /\ UNCHANGED <<files, gpc>>
           ELSE \E io \in {"ok", "create", "write"} :
                    /\ path' = path_of(h)
                    /\ files' = IF io = "create" THEN files
                                ELSE [q \in DOMAIN files \cup {path_of(h)} |->
                                        IF q # path_of(h) THEN files[q]
                                        ELSE IF io = "write" THEN EmptyFile
                                        ELSE generate_entry([c EXCEPT !.name = h.class_name])]
                    /\ gpc' = IF io = "ok" THEN "running" ELSE "Err"

\* generator/mod.rs lines 80-82
GenerateReturn ==
    /\ gpc = "running"
    /\ cursor = Len(tree)
    /\ gpc' = "Ok"
    /\ UNCHANGED <<tree, cursor, path, files>>

\* main.rs line 31: the root package given to build
Root == <<"c", "o", "m", ".", "i", "t", "e", "x", "t", "p", "d", "f", ".">>

\* what the runtime reports of a method
RuntimeMethods == {
    [name |-> <<"g", "e", "t">>, is_static |-> FALSE, parameters |-> <<>>, ret |-> Void],
    [name |-> <<"s", "e", "t">>, is_static |-> FALSE,
     parameters |-> <<<<"j", "a", "v", "a", ".", "l", "a", "n", "g", ".", "S", "t", "r", "i", "n", "g">>>>, ret |-> Void]}

\* the classes of the runtime, each with the call that fails on it, if any
RuntimeClasses ==
    [name : {<<"c", "o", "m", ".", "i", "t", "e", "x", "t", "p", "d", "f", ".", "A">>, <<"c", "o", "m", ".", "i", "t", "e", "x", "t", "p", "d", "f", ".", "B", "$", "C">>, <<"o", "r", "g", ".", "D">>},
     fault : {"none", "get_name", "explore"},
     methods : Lists(RuntimeMethods, 1)]

\* parser/class_tree.rs lines 94-155
MethodEntry_new(m) ==
    [name |-> m.name,
     is_static |-> m.is_static,
     arguments |-> [k \in 1..Len(m.parameters) |-> ArgumentType_new(m.parameters[k])],
     return_type |-> return_type_new(m.ret)]

\* parser/class_tree.rs lines 72-77
ClassEntry_of(c) ==
    [name |-> c.name,
     class_type |-> "Class",
     methods |-> [k \in 1..Len(c.methods) |-> MethodEntry_new(c.methods[k])]]

NoResult == [tag |-> "?"]
Err == [tag |-> "Err"]
Ok(value) == [tag |-> "Ok", value |-> value]

MainInit ==
    /\ runtime \in Lists(RuntimeClasses, MaxClasses)
    /\ jvm = "none"
    /\ jvm_created = 0
    /\ runtime_calls = 0
    /\ classes = <<>>
    /\ explored = 0
    /\ class_entries = <<>>
    /\ class_tree = NoResult
    /\ formatted_all = <<>>
    /\ mainpc = "start"

MainIdle ==
    /\ runtime = <<>>
    /\ jvm = "none"
    /\ jvm_created = 0
    /\ runtime_calls = 0
    /\ classes = <<>>
    /\ explored = 0
    /\ class_entries = <<>>
    /\ class_tree = NoResult
    /\ formatted_all = <<>>
    /\ mainpc = "idle"

\* a failed creation that main does not stop at
JvmNew_Unchecked ==
    /\ mainpc = "start"
    /\ jvm_created' = jvm_created + 1
    /\ \E ok \in BOOLEAN :
            /\ jvm' = IF ok THEN "alive" ELSE "failed"
            /\ mainpc' = "created"
    /\ UNCHANGED <<runtime, runtime_calls, classes, explored, class_entries, class_tree,
                   formatted_all>>

\* main.rs line 27: Jvm::new(..).expect(..)
JvmNew ==
    /\ mainpc = "start"
    /\ jvm_created' = jvm_created + 1
    /\ \E ok \in BOOLEAN :
            /\ jvm' = IF ok THEN "alive" ELSE "failed"
            /\ mainpc' = IF ok THEN "created" ELSE "panicked"
    /\ UNCHANGED <<runtime, runtime_calls, classes, explored, class_entries, class_tree,
                   formatted_all>>

\* main.rs line 28: jvm.attach_current_thread().expect(..)
AttachCurrentThread ==
    /\ mainpc = "created"
    /\ \E ok \in BOOLEAN :
            /\ jvm' = IF ok THEN jvm ELSE "dropped"
            /\ mainpc' = IF ok THEN "attached" ELSE "panicked"
    /\ UNCHANGED <<runtime, jvm_created, runtime_calls, classes, explored, class_entries,
                   class_tree, formatted_all>>

\* parser/class_tree.rs lines 39-47: the classes of the class path, their
\* names, and the filter by the root
BuildDiscover ==
    /\ mainpc = "attached"
    /\ runtime_calls' = runtime_calls + 1
    /\ \E ok \in BOOLEAN :
            IF ok /\ \A k \in 1..Len(runtime) : runtime[k].fault # "get_name"
            THEN /\ classes' = SelectSeq(runtime, LAMBDA c : StartsWith(c.name, Root))
                 /\ mainpc' = "exploring"
                 /\ UNCHANGED class_tree
            ELSE /\ class_tree' = Err
                 /\ mainpc' = "built"
                 /\ UNCHANGED classes
    /\ UNCHANGED <<runtime, jvm, jvm_created, explored, class_entries, formatted_all>>

\* the class whose extraction fails is left out and the pass goes on
BuildExplore_Skip ==
    /\ mainpc = "exploring"
    /\ explored < Len(classes)
    /\ explored' = explored + 1
    /\ runtime_calls' = runtime_calls + 1
    /\ class_entries' = IF classes[explored + 1].fault = "explore" THEN class_entries
                        ELSE Append(class_entries, ClassEntry_of(classes[explored + 1]))
    /\ UNCHANGED <<runtime, jvm, jvm_created, classes, class_tree, formatted_all, mainpc>>

\* parser/class_tree.rs lines 49-79: the closure, on the next class; the
\* first failure ends the pass and drops what was collected
BuildExplore ==
    /\ mainpc = "exploring"
    /\ explored < Len(classes)
    /\ explored' = explored + 1
    /\ runtime_calls' = runtime_calls + 1
    /\ IF classes[explored + 1].fault = "explore"
       THEN /\ class_entries' = <<>>
            /\ class_tree' = Err
            /\ mainpc' = "built"
       ELSE /\ class_entries' = Append(class_entries, ClassEntry_of(classes[explored + 1]))
            /\ UNCHANGED <<class_tree, mainpc>>
    /\ UNCHANGED <<runtime, jvm, jvm_created, classes, formatted_all>>

\* parser/class_tree.rs lines 79-81
BuildReturn ==
    /\ mainpc = "exploring"
    /\ explored = Len(classes)
    /\ class_tree' = Ok(class_entries)
    /\ mainpc' = "built"
    /\ UNCHANGED <<runtime, jvm, jvm_created, runtime_calls, classes, explored,
                   class_entries, formatted_all>>

\* main.rs line 31: .expect("Failed to build tree")
ExpectTree ==
    /\ mainpc = "built"
    /\ IF class_tree = Err
       THEN jvm' = "dropped" /\ mainpc' = "panicked"
       ELSE mainpc' = "formatting" /\ UNCHANGED jvm
    /\ UNCHANGED <<runtime, jvm_created, runtime_calls, classes, explored, class_entries,
                   class_tree, formatted_all>>

\* main.rs lines 37-39: FormattedClassEntry::from on the next class
FormatClass ==
    /\ mainpc = "formatting"
    /\ Len(formatted_all) < Len(class_tree.value)
    /\ LET f == FormattedClassEntry_from(class_tree.value[Len(formatted_all) + 1])
       IN  IF f = Unwound
           THEN /\ jvm' = "dropped"
                /\ mainpc' = "panicked"
                /\ UNCHANGED formatted_all
           ELSE /\ formatted_all' = Append(formatted_all, f)
                /\ UNCHANGED <<jvm, mainpc>>
    /\ UNCHANGED <<runtime, jvm_created, runtime_calls, classes, explored, class_entries,
                   class_tree>>

\* main.rs lines 41-45
MainReturn ==
    /\ mainpc = "formatting"
    /\ Len(formatted_all) = Len(class_tree.value)
    /\ jvm' = "dropped"
    /\ mainpc' = "done"
    /\ UNCHANGED <<runtime, jvm_created, runtime_calls, classes, explored, class_entries,
                   class_tree, formatted_all>>

vars == <<renameVars, typeVars, methodVars, emitVars, classVars, generateVars, mainVars>>

\* rename_class_fq on one name
Init == RenameInit(Names) /\ TypeIdle /\ MethodIdle /\ EmitIdle /\ ClassIdle /\ GenerateIdle /\ MainIdle
Next == RenameStep /\ UNCHANGED <<typeVars, methodVars, emitVars, classVars, generateVars, mainVars>>
Spec == Init /\ [][Next]_vars

\* the function runs to its end once called: nothing else is scheduled
InitTotal == RenameInit(TotalNames) /\ TypeIdle /\ MethodIdle /\ EmitIdle /\ ClassIdle /\ GenerateIdle /\ MainIdle
SpecTotal == InitTotal /\ [][Next]_vars /\ WF_vars(Next)

\* rename_class_fq on two names of the same run
InitPair == RenameInit(PairNames) /\ TypeIdle /\ MethodIdle /\ EmitIdle /\ ClassIdle /\ GenerateIdle /\ MainIdle
NextPair == (RenameStep \/ RenameSecond) /\ UNCHANGED <<typeVars, methodVars, emitVars, classVars, generateVars, mainVars>>
SpecPair == InitPair /\ [][NextPair]_vars

\* one parameter type: built, and encoded by the formatter and the emitter
RenameIdle ==
    /\ input = NoText
    /\ components = <<>>
    /\ class_name = NoText
    /\ class_fully_qualified = <<>>
    /\ tmp = NoText
    /\ output = NoText
    /\ second = NoText
    /\ second_output = NoText
    /\ pc = "idle"

InitType == TypeInit({<<>>}) /\ RenameIdle /\ MethodIdle /\ EmitIdle /\ ClassIdle /\ GenerateIdle /\ MainIdle
NextType ==
    (ArgumentTypeNew \/ ToJniSignature \/ ArgumentTypeToSignature \/ FromSignatureType)
        /\ UNCHANGED <<renameVars, methodVars, emitVars, classVars, generateVars, mainVars>>
SpecType == InitType /\ [][NextType]_vars

\* one parameter type: built, and mapped to a target type by the formatter
\* and by the emitter
InitRust == TypeInit(Mappings) /\ RenameIdle /\ MethodIdle /\ EmitIdle /\ ClassIdle /\ GenerateIdle /\ MainIdle
NextRust ==
    \/ (ArgumentTypeNew \/ ToRustType) /\ UNCHANGED <<renameVars, methodVars, emitVars, classVars, generateVars, mainVars>>
    \/ GenerateArgumentType /\ UNCHANGED <<renameVars, methodVars, classVars, generateVars, mainVars>>
SpecRust == InitRust /\ [][NextRust]_vars

\* one method: built, and its descriptor computed by the formatter and the emitter
InitMethod == MethodInit /\ RenameIdle /\ TypeIdle /\ EmitIdle /\ ClassIdle /\ GenerateIdle /\ MainIdle
NextMethod ==
    (MethodEntryNew \/ FormattedMethodEntryFrom \/ GenerateSignature)
        /\ UNCHANGED <<renameVars, typeVars, emitVars, classVars, generateVars, mainVars>>
SpecMethod == InitMethod /\ [][NextMethod]_vars

\* one class: formatted, and its tokens generated
InitClass ==
    /\ ClassInit /\ RenameIdle /\ TypeIdle /\ MethodIdle /\ EmitIdle /\ GenerateIdle
    /\ MainIdle
NextClass ==
    /\ FormattedClassEntryFrom \/ GenerateEntry
    /\ UNCHANGED <<renameVars, typeVars, methodVars, emitVars, generateVars, mainVars>>
SpecClass == InitClass /\ [][NextClass]_vars

\* generate over a tree of classes
InitGenerate ==
    GenerateInit /\ RenameIdle /\ TypeIdle /\ MethodIdle /\ EmitIdle /\ ClassIdle /\ MainIdle
NextGenerate ==
    /\ GenerateClass \/ GenerateReturn
    /\ UNCHANGED <<renameVars, typeVars, methodVars, emitVars, classVars, mainVars>>
SpecGenerate == InitGenerate /\ [][NextGenerate]_vars

\* main: the runtime bridge, build, and the formatting
InitMain ==
    /\ MainInit /\ RenameIdle /\ TypeIdle /\ MethodIdle /\ EmitIdle /\ ClassIdle
    /\ GenerateIdle
NextMain ==
    /\ \/ JvmNew
       \/ AttachCurrentThread
       \/ BuildDiscover
       \/ BuildExplore
       \/ BuildReturn
       \/ ExpectTree
       \/ FormatClass
       \/ MainReturn
    /\ UNCHANGED <<renameVars, typeVars, methodVars, emitVars, classVars, generateVars>>
SpecMain == InitMain /\ [][NextMain]_vars

(***************************************************************************)
(* Claims about the identifier renaming engine.                            *)
(***************************************************************************)
InComponents == split(input, ".")
OutComponents == split(output, ".")
Parents == Front(split(Last(InComponents), "$"))
Leaf == Last(split(Last(InComponents), "$"))
Nested == Contains(Last(InComponents), "$")
HasUpper(s) == \E k \in 1..Len(s) : IsUpper(s[k])

\* C1 as stated: for a name whose last component is S1$...$Sk$Leaf the
\* result is the snake-cased package components, then snake_case(Si) + "_p"
\* for each enclosing class, then Leaf, joined with '.'; it has (package
\* components + k + 1) components and no '$'.
C1_AsStated ==
    (pc = "done" /\ Nested) =>
        /\ output = join([k \in 1..(Len(InComponents) - 1) |-> to_case_snake(InComponents[k])]
                         \o [k \in 1..Len(Parents) |-> to_case_snake(Parents[k]) \o <<"_", "p">>]
                         \o <<Leaf>>, <<".">>)
        /\ Len(OutComponents) = Len(InComponents) - 1 + Len(Parents) + 1
        /\ ~Contains(output, "$")

\* C1 amended: for a name whose last component is S1$...$Sk$Leaf the result
\* is the package components, each keyword-escaped and then snake-cased,
\* then snake_case(escape_keywords(Si)) + "_p" for each enclosing class in
\* order, then Leaf unchanged, joined with '.'; it has exactly (package
\* components + k + 1) components, and the k + 1 components that come from
\* the class name hold no '$'.
C1_NestedPath ==
    (pc = "done" /\ Nested) =>
        /\ output = join([k \in 1..(Len(InComponents) - 1) |->
                              to_case_snake(escape_keywords(InComponents[k]))]
                         \o [k \in 1..Len(Parents) |->
                                to_case_snake(escape_keywords(Parents[k])) \o <<"_", "p">>]
                         \o <<Leaf>>, <<".">>)
        /\ Len(OutComponents) = Len(InComponents) - 1 + Len(Parents) + 1
        /\ \A k \in Len(InComponents)..Len(OutComponents) : ~Contains(OutComponents[k], "$")
        /\ Last(OutComponents) = Leaf

C1_Witness ==
    /\ pc = "done"
    /\ Len(InComponents) >= 2
    /\ Len(Parents) >= 2
    /\ \E k \in 1..Len(Parents) : HasUpper(Parents[k])
    /\ Len(Leaf) > 0

\* C2: keyword escaping is applied to every dot-separated component at any
\* position: a component equal to a reserved word gets "_k" appended, every
\* other component is left unchanged by the escaping step; a reserved
\* package component is still reserved word + "_k" in the result.
C2_KeywordEscaping ==
    /\ pc = "split" =>
        /\ Len(components) + 1 = Len(InComponents)
        /\ \A k \in 1..Len(InComponents) :
              Append(components, class_name)[k] =
                  IF InComponents[k] \in Keywords
                  THEN InComponents[k] \o <<"_", "k">>
                  ELSE InComponents[k]
    /\ pc = "done" =>
          \A k \in 1..(Len(InComponents) - 1) :
              InComponents[k] \in Keywords
                  => OutComponents[k] = InComponents[k] \o <<"_", "k">>

C2_Witness ==
    /\ pc = "done"
    /\ Len(InComponents) >= 3
    /\ InComponents[2] \in Keywords
    /\ InComponents[1] \notin Keywords
    /\ OutComponents[2] = InComponents[2] \o <<"_", "k">>

\* C3: every package component (every component but the last) is converted
\* to snake case, and the class-name component, when it holds no '$', keeps
\* its case: it is the input's, but for the keyword suffix.
C3_CaseAdjusting ==
    (pc = "done" /\ ~Nested) =>
        /\ Len(OutComponents) = Len(InComponents)
        /\ \A k \in 1..(Len(InComponents) - 1) :
              /\ OutComponents[k] = to_case_snake(escape_keywords(InComponents[k]))
              /\ ~HasUpper(OutComponents[k])
        /\ Last(OutComponents) = escape_keywords(Last(InComponents))
        /\ Last(InComponents) \notin Keywords => Last(OutComponents) = Last(InComponents)

C3_Witness ==
    /\ pc = "done"
    /\ ~Nested
    /\ Len(InComponents) >= 2
    /\ HasUpper(InComponents[1])
    /\ IsLower(InComponents[1][1])
    /\ HasUpper(Last(InComponents))
    /\ output # input

\* C4: rename_class_fq is collision-free: two different foreign names never
\* get the same renamed path.
C4_CollisionFree ==
    (pc = "compared" /\ second # input) => second_output # output

\* C5: rename_class_fq is total: for every text the loop ends and a name is
\* returned without a panic, each iteration strictly reducing the number of
\* '$' left in tmp.
C5_Total ==
    /\ <>(pc = "done")
    /\ [](pc # "panic")
    /\ [][(pc = "loop" /\ pc' = "loop") => Count(tmp', "$") < Count(tmp, "$")]_vars

C5_Witness ==
    /\ pc = "done"
    /\ Count(input, "$") >= 3
    /\ Head(input) = "$"
    /\ Last(input) = "$"
    /\ \E k \in 1..(Len(input) - 1) : input[k] = "$" /\ input[k + 1] = "$"

(***************************************************************************)
(* Claims about the signature and type mapping engine.                     *)
(***************************************************************************)
\* the wire descriptors the foreign runtime fixes
LetterOf(tag) ==
    CASE tag = "Boolean" -> <<"Z">>
      [] tag = "Byte" -> <<"B">>
      [] tag = "Char" -> <<"C">>
      [] tag = "Short" -> <<"S">>
      [] tag = "Int" -> <<"I">>
      [] tag = "Long" -> <<"J">>
      [] tag = "Float" -> <<"F">>
      [] tag = "Double" -> <<"D">>

WireDescriptor(base, dims) ==
    Brackets(dims) \o (IF base \in PrimitiveWords THEN ArrayLetter(base)
                       ELSE <<"L">> \o replace(base, <<".">>, <<"/">>) \o <<";">>)

\* the descriptor of the type the runtime names n
DescriptorOfName(n) ==
    LET bd == CHOOSE bd \in (PrimitiveWords \cup ClassNames) \X (0..MaxDims) :
                  JavaName(bd[1], bd[2]) = n
    IN  WireDescriptor(bd[1], bd[2])

Encoded == tpc \in {"generated", "decoded"}

\* C6: each of the 8 primitive kinds encodes to its fixed letter, by the
\* formatter and by the emitter, from_signature_type of that letter is the
\* same kind, and from_signature_type of any other text is None.
C6_PrimitiveRoundTrip ==
    /\ (Encoded /\ ty.tag \in PrimitiveTags) =>
          /\ jni = LetterOf(ty.tag)
          /\ gen = LetterOf(ty.tag)
    /\ (tpc = "decoded" /\ ty.tag \in PrimitiveTags /\ decoded.text = jni) =>
          decoded.result = ty
    /\ tpc = "decoded" =>
          /\ \A k \in PrimitiveTags :
                decoded.text = LetterOf(k) => decoded.result = Primitive(k)
          /\ (\A k \in PrimitiveTags : decoded.text # LetterOf(k)) => decoded.result = None

C6_Witness ==
    /\ tpc = "decoded"
    /\ ty = Primitive("Long")
    /\ jni = <<"J">>
    /\ decoded.text = jni
    /\ decoded.result = ty

\* C7: the wire descriptor of ObjectRef(fq) is "L" + fq with every '.'
\* replaced by '/' + ";", built from the foreign name with no other change.
C7_ObjectDescriptor ==
    (Encoded /\ ty.tag = "Object") =>
        jni = <<"L">> \o replace(java_name, <<".">>, <<"/">>) \o <<";">>

\* C8: the wire descriptor of an array type is one "[" per dimension
\* followed by the descriptor of its element type.
C8_ArrayDescriptor ==
    (Encoded /\ ty.tag = "Array") => jni = DescriptorOfName(java_name)

\* C9: the descriptor of a method is "(" + the descriptors of its arguments
\* in order, with no separator, + ")" + the descriptor of its return type,
\* which is "V" exactly when the method returns nothing.
C9_MethodDescriptor ==
    mpc = "generated" =>
        jni_signature =
            <<"(">> \o concat([k \in 1..Len(method.parameters) |->
                                  DescriptorOfName(method.parameters[k])]) \o <<")">>
            \o (IF method.ret = Void THEN <<"V">> ELSE DescriptorOfName(method.ret))

BaseOf(n) ==
    (CHOOSE bd \in (PrimitiveWords \cup ClassNames) \X (0..MaxDims) :
        JavaName(bd[1], bd[2]) = n)[1]
DimsOf(n) ==
    (CHOOSE bd \in (PrimitiveWords \cup ClassNames) \X (0..MaxDims) :
        JavaName(bd[1], bd[2]) = n)[2]

\* the fixed-width target types of the primitives
RustPrimitive(word) ==
    CASE word = <<"b", "o", "o", "l", "e", "a", "n">> -> <<"b", "o", "o", "l">>
      [] word = <<"b", "y", "t", "e">> -> <<"u", "8">>
      [] word = <<"c", "h", "a", "r">> -> <<"u", "1", "6">>
      [] word = <<"s", "h", "o", "r", "t">> -> <<"i", "1", "6">>
      [] word = <<"i", "n", "t">> -> <<"i", "3", "2">>
      [] word = <<"l", "o", "n", "g">> -> <<"i", "6", "4">>
      [] word = <<"f", "l", "o", "a", "t">> -> <<"f", "3", "2">>
      [] word = <<"d", "o", "u", "b", "l", "e">> -> <<"f", "6", "4">>

RECURSIVE VecOf(_, _)
VecOf(dims, inner) ==
    IF dims = 0 THEN inner ELSE <<"V", "e", "c", "<">> \o VecOf(dims - 1, inner) \o <<">">>

\* the mapped target type of an element, by to_rust_type's rules
ElementRust(base) ==
    IF base \in PrimitiveWords THEN RustPrimitive(base)
    ELSE LET P == replace(rename_class_fq(base), <<".">>, <<":", ":">>)
         IN  IF P \in DOMAIN mappings THEN mappings[P] ELSE P

\* the target type of an element, by generate_argument_type's rules
ElementEmitted(base) ==
    IF base \in PrimitiveWords THEN RustPrimitive(base)
    ELSE generate_argument_type(Object(base))

\* C11: the target type of an array type is Vec<T>, T the mapped type of
\* the element, with one Vec per dimension, never the bare element type.
C11_ArrayIsVec ==
    (tpc \in {"mapped", "emitted"} /\ ty.tag = "Array") =>
        rust = VecOf(DimsOf(java_name), ElementRust(BaseOf(java_name)))

\* an array type that is not first-class: three or more dimensions, or
\* several dimensions of a non-primitive element
Degraded(n) ==
    \/ DimsOf(n) >= 3
    \/ DimsOf(n) >= 2 /\ BaseOf(n) \notin PrimitiveWords

\* C18: for an array type of three or more dimensions, or of several
\* dimensions of a non-primitive element, the target type produced is the
\* correct nested sequence type or is flagged (the only flag the code has
\* is a panic); it is never an unflagged expression naming another type.
C18_DegradedIsFlagged ==
    (tpc = "emitted" /\ Degraded(java_name)) =>
        /\ rust \in {VecOf(DimsOf(java_name), ElementRust(BaseOf(java_name))), Panic}
        /\ emitted \in {VecOf(DimsOf(java_name), ElementEmitted(BaseOf(java_name))), Panic}

\* the TypeRef of the data model for element `base` and `dims` dimensions
RECURSIVE TypeRef(_, _)
TypeRef(base, dims) ==
    IF dims > 0 THEN Array(TypeRef(base, dims - 1))
    ELSE IF base \in PrimitiveWords THEN ArgumentType_new(base)
    ELSE Object(base)

\* C20: every type built from metadata represents an n-dimensional array as
\* exactly n nested Array nodes around its element type, a primitive element
\* as a Primitive node, never as an Object holding descriptor text.
C20_NestedArrayNodes ==
    tpc # "meta" => ty = TypeRef(BaseOf(java_name), DimsOf(java_name))

(***************************************************************************)
(* Claims about names that are already normalized.                         *)
(***************************************************************************)
\* a component of lowercase words of letters joined by single underscores
IsSnakeCase(c) ==
    /\ \A k \in 1..Len(c) : IsLower(c[k]) \/ c[k] = "_"
    /\ Len(c) > 0 => (c[1] # "_" /\ c[Len(c)] # "_")
    /\ \A k \in 1..(Len(c) - 1) : ~(c[k] = "_" /\ c[k + 1] = "_")

\* no reserved-word component, no '$', package components in snake case
Normalized(name) ==
    /\ ~Contains(name, "$")
    /\ \A k \in 1..Len(split(name, ".")) : split(name, ".")[k] \notin Keywords
    /\ \A k \in 1..(Len(split(name, ".")) - 1) : IsSnakeCase(split(name, ".")[k])

Synthetic(m) == contains(m.name, LambdaMarker) \/ Contains(m.name, "$")

\* C12: a method whose name contains "lambda$" or '$' gives no wrapper and
\* no method entry in the output of its class, and no error; every other
\* declared method gives exactly one wrapper.
C12_SyntheticOmitted ==
    /\ cpc \in {"formatted", "generated"} =>
            /\ formatted # Unwound
            /\ \A k \in 1..Len(formatted.methods) : ~Synthetic(class.methods[k])
    /\ cpc = "generated" =>
            /\ tokens # EmptyTokens
            /\ \A k \in 1..Len(class.methods) :
                    Synthetic(class.methods[k]) <=> tokens.methods[k] = EmptyTokens

(***************************************************************************)
(* Claims about the files generate writes.                                 *)
(***************************************************************************)
\* the renamed names of the classes of the tree are pairwise different
RenamedApart ==
    \A j, k \in 1..Len(tree) :
        j # k => rename_class_fq(tree[j].name) # rename_class_fq(tree[k].name)

\* C13: generate over N classes whose renamed names are pairwise different
\* creates exactly N files at N different paths, in whatever order the
\* classes are handled; no class is skipped and no file of one class is
\* overwritten by another.
C13_OneFilePerClass ==
    (gpc = "Ok" /\ RenamedApart) =>
        /\ Cardinality(DOMAIN files) = Len(tree)
        /\ \A k \in 1..Len(tree) :
                /\ ~handle(tree[k]).returned
                /\ path_of(handle(tree[k])) \in DOMAIN files
                /\ files[path_of(handle(tree[k]))] =
                        generate_entry([tree[k] EXCEPT !.name = handle(tree[k]).class_name])

\* the path that mirrors a renamed name: its components but the last as
\* directories, its last component as the stem of the file
Mirror(renamed) ==
    Append(Front(split(renamed, ".")), Last(split(renamed, ".")) \o <<".", "r", "s">>)

\* C14: the path generate chooses for a class mirrors
\* rename_class_fq(name): the directories are the package components of the
\* renamed name, then one per enclosing class, equal to the renamed segment
\* of that class, and the stem of the file is the last component.
C14_PathMirrorsRename ==
    (cursor > 0 /\ path # NoPath) =>
        path = Mirror(rename_class_fq(tree[cursor].name))

(***************************************************************************)
(* Claims about a whole run.                                               *)
(***************************************************************************)
\* some introspection call of build fails: the name of a class of the class
\* path, or the extraction of a class under the root
IntrospectionFails ==
    \/ \E k \in 1..Len(runtime) : runtime[k].fault = "get_name"
    \/ \E k \in 1..Len(runtime) :
            StartsWith(runtime[k].name, Root) /\ runtime[k].fault = "explore"

\* C15: build is fail-fast.  A failure of any introspection step makes
\* build return an error that carries no class entries, no class after the
\* failing one is taken, and the run stops before anything is formatted.
C15_FailFast ==
    /\ class_tree = Err =>
            /\ class_entries = <<>>
            /\ formatted_all = <<>>
            /\ mainpc \in {"built", "panicked"}
    /\ \A k \in 1..(explored - 1) : classes[k].fault # "explore"
    /\ IntrospectionFails =>
            /\ class_tree \in {NoResult, Err}
            /\ formatted_all = <<>>
            /\ mainpc \notin {"formatting", "done"}
    /\ class_tree.tag = "Ok" => Len(class_tree.value) = Len(classes)

\* the extraction of the first of two classes failed, and the run stopped
C15_Witness ==
    /\ Len(classes) = 2
    /\ classes[1].fault = "explore"
    /\ explored = 1
    /\ class_tree = Err
    /\ mainpc = "panicked"

\* C16: the bridge is created exactly once, before the first discovery or
\* extraction call; it is not torn down before extraction and formatting
\* are over; if its creation fails no extraction runs.
C16_BridgeOnce ==
    /\ jvm_created <= 1
    /\ mainpc \notin {"start", "idle"} => jvm_created = 1
    /\ runtime_calls > 0 => jvm \in {"alive", "dropped"}
    /\ mainpc \in {"attached", "exploring", "built", "formatting"} => jvm = "alive"
    /\ jvm = "dropped" => mainpc \in {"done", "panicked"}
    /\ jvm = "failed" =>
            /\ runtime_calls = 0
            /\ explored = 0
            /\ class_tree = NoResult
            /\ mainpc = "panicked"

\* a run that created the bridge, extracted and formatted two classes, and
\* returned
C16_Witness ==
    /\ mainpc = "done"
    /\ jvm_created = 1
    /\ runtime_calls = 3
    /\ Len(formatted_all) = 2

\* C17: a type name without a recognized marker makes the computation of
\* the wire descriptor fail for its class only: the run goes on with the
\* classes that remain and never panics while it formats.
C17_DescriptorFailureIsLocal ==
    class_tree.tag = "Ok" => mainpc # "panicked"

(***************************************************************************)
(* Claims about the rewritten name of a nested class.                      *)
(***************************************************************************)
\* the name in the file generate has just written for the class it took last
WrittenName == files[path].name

\* C21: the rewrite of a nested class's name in generate changes only the
\* class-name component: every package component is left unchanged, each
\* '$' is replaced by the path-safe token, and the text of the nested
\* (child) class name is left unchanged; a name with no '$' is not
\* rewritten at all.
C21_RewriteFrame ==
    (/\ gpc \in {"running", "Ok"}
     /\ cursor > 0
     /\ path # NoPath) =>
        LET old == tree[cursor].name
            package == Front(split(old, "."))
            child == Last(split(Last(split(old, ".")), "$"))
        IN  IF ~Contains(old, "$") THEN WrittenName = old
            ELSE /\ ~Contains(WrittenName, "$")
                 /\ Len(split(WrittenName, ".")) > Len(package)
                 /\ SubSeq(split(WrittenName, "."), 1, Len(package)) = package
                 /\ Last(split(WrittenName, ".")) = child

(***************************************************************************)
(* Claims about reserved words in the output of rename_class_fq.           *)
(***************************************************************************)
\* C22: no dot-separated component of the output of rename_class_fq is
\* exactly a reserved word, also when it becomes one only after the case
\* adjustment, and also for the nested class name after the last '$'.
C22_NoReservedComponent ==
    pc = "done" => \A k \in 1..Len(OutComponents) : OutComponents[k] \notin Keywords

====
